---- MODULE Spec2Model ----
(***************************************************************************)
(* Model of tools/projmgr ProjMgrUtils: component / package identifier     *)
(* construction and decomposition, the compiler specifier algebra and its  *)
(* repeated use for merging, the context entry parser and unique append.   *)
(*                                                                         *)
(* A std::string is a sequence of one-character strings, so that find,     *)
(* substr and the delimiter handling are computed and not assumed.         *)
(***************************************************************************)
EXTENDS Integers, Sequences, FiniteSets, TLC

VARIABLES
  op,            \* the operation that ran last
  component,     \* RteItem* handed to the get-ID operations (or NullItem)
  component2,    \* a second RteItem* (pair specification)
  id,            \* identifier string returned last
  idKind,        \* the operation that produced id
  id2,           \* identifier of component2
  attributes,    \* map returned by ComponentAttributesFromId
  first,         \* compiler specifier (first argument)
  second,        \* compiler specifier (second argument)
  intersection,  \* the string bound to CompilersIntersect's output reference
  intersectionIn, \* what that string held when CompilersIntersect was called last
  expanded,      \* name, minVer, maxVer written by ExpandCompilerId
  compatible,    \* result of AreCompilersCompatible
  contextEntry,  \* argument of ParseContextEntry
  context,       \* ContextName returned by ParseContextEntry
  collectionKind, \* static type of the caller's collection: "vector", "list" or "pairs"
  collection,    \* the collection handed to PushBackUniquely by reference
  initial,       \* what the collection held before the first call
  pushed,        \* the values of the PushBackUniquely calls so far, in call order
  accumulator,   \* the merged compiler specifier (acc)
  merged         \* the specifiers merged into accumulator so far, in merge order

vars == <<op, component, component2, id, idKind, id2, attributes,
          first, second, intersection, intersectionIn, expanded, compatible,
          contextEntry, context, collectionKind, collection, initial, pushed,
          accumulator, merged>>

idVars  == <<component, component2, id, idKind, id2, attributes>>
verVars == <<first, second, intersection, intersectionIn, expanded, compatible>>
ctxVars == <<contextEntry, context>>
pushVars  == <<collectionKind, collection, initial, pushed>>
mergeVars == <<accumulator, merged>>

----------------------------------------------------------------------------
(* Bounds *)

\* number of distinct non-empty attribute values an item field can take
NumVals == 1

----------------------------------------------------------------------------
(* std::string primitives *)

EMPTY_STRING == <<>>

\* string::npos; positions are 1-based here
NPOS == 0

Min2(a, b) == IF a < b THEN a ELSE b

\* s.substr(pos) with a 1-based pos
SubstrFrom(s, pos) == SubSeq(s, pos, Len(s))

\* s.substr(0, n)
SubstrTo(s, n) == SubSeq(s, 1, Min2(n, Len(s)))

\* s.find(pat): 1-based position of the first occurrence, NPOS when absent
Find(s, pat) ==
  LET hits == {i \in 1..(Len(s) + 1) :
                 /\ i + Len(pat) - 1 <= Len(s)
                 /\ SubSeq(s, i, i + Len(pat) - 1) = pat}
  IN IF hits = {} THEN NPOS ELSE CHOOSE i \in hits : \A j \in hits : i <= j

\* s.find_last_of(ch)
FindLastOf(s, ch) ==
  LET hits == {i \in 1..Len(s) : s[i] = ch}
  IN IF hits = {} THEN NPOS ELSE CHOOSE i \in hits : \A j \in hits : i >= j

----------------------------------------------------------------------------
(* Delimiters, ProjMgrUtils.h *)

SUFFIX_CVENDOR       == <<":", ":">>
PREFIX_CBUNDLE       == <<"&">>
PREFIX_CBUNDLE_CHAR  == "&"
PREFIX_CGROUP        == <<":">>
PREFIX_CSUB          == <<":">>
PREFIX_CVARIANT      == <<"&">>
PREFIX_CVARIANT_CHAR == "&"
PREFIX_CVERSION      == <<"@">>
PREFIX_CVERSION_CHAR == "@"
SUFFIX_PACK_VENDOR   == <<":", ":">>
PREFIX_PACK_VERSION  == <<"@">>

----------------------------------------------------------------------------
(* RteUtils string helpers and XmlItem (libs/rteutils, libs/xmltree) *)

\* RteUtils::GetPrefix(s, delimiter): text before the first delimiter, s when absent
GetPrefix(s, ch) ==
  LET pos == Find(s, <<ch>>)
  IN IF pos = NPOS THEN s ELSE SubstrTo(s, pos - 1)

\* RteUtils::GetSuffix(s, delimiter): text after the last delimiter, empty when absent
GetSuffix(s, ch) ==
  LET pos == FindLastOf(s, ch)
  IN IF pos = NPOS THEN EMPTY_STRING ELSE SubstrFrom(s, pos + 1)

\* RteUtils::RemoveSuffixByString(s, delimiter): text before the delimiter string
RemoveSuffixByString(s, delim) ==
  LET pos == Find(s, delim)
  IN IF pos = NPOS THEN s ELSE SubstrTo(s, pos - 1)

\* RteUtils::RemovePrefixByString(s, delimiter): text after the delimiter string
RemovePrefixByString(s, delim) ==
  LET pos == Find(s, delim)
  IN IF pos = NPOS THEN s ELSE SubstrFrom(s, pos + Len(delim))

\* RteUtils::SplitString(segments, s, delimiter)
RECURSIVE SplitString(_, _)
SplitString(s, ch) ==
  LET pos == Find(s, <<ch>>)
  IN IF pos = NPOS THEN <<s>>
     ELSE <<SubstrTo(s, pos - 1)>> \o SplitString(SubstrFrom(s, pos + 1), ch)

\* XmlItem::AddAttribute(name, value, insertEmpty): a non-empty value is
\* written (last write wins); an empty one is written only with insertEmpty
AddAttribute(attrs, name, value, insertEmpty) ==
  IF insertEmpty \/ value # EMPTY_STRING
    THEN [k \in (DOMAIN attrs) \cup {name} |-> IF k = name THEN value ELSE attrs[k]]
    ELSE attrs

\* a default-constructed XmlItem has no attributes
NoAttributes == [k \in {} |-> EMPTY_STRING]

----------------------------------------------------------------------------
(* Items *)

\* a null RteItem pointer
NullItem == [nullptr |-> TRUE]

ValSeq == << <<"a">>, <<"b">>, <<"c">> >>

\* non-empty attribute values, free of the delimiter characters
Vals == {ValSeq[i] : i \in 1..NumVals}

\* an optional attribute is empty or carries a value
OptVals == {EMPTY_STRING} \cup Vals

\* the attribute bag of an RteItem as seen through its getters
Items == [GetVendorString : OptVals, GetCclassName : OptVals, GetCbundleName : OptVals,
          GetCgroupName : OptVals, GetCsubName : OptVals, GetCvariantName : OptVals,
          GetVersionString : OptVals, GetName : OptVals]

ItemsOrNull == Items \cup {NullItem}

----------------------------------------------------------------------------
(* Identifier construction *)

\* ProjMgrUtils::ConstructID
RECURSIVE ConstructID(_)
ConstructID(elements) ==
  IF elements = <<>> THEN EMPTY_STRING
  ELSE (IF elements[1][2] # EMPTY_STRING
          THEN elements[1][1] \o elements[1][2]
          ELSE EMPTY_STRING) \o ConstructID(Tail(elements))

\* GetComponentID that prefixes the variant with the sub-name's delimiter
GetComponentID_VariantColon(c) ==
  IF c = NullItem THEN EMPTY_STRING
  ELSE
    LET vendor == IF c.GetVendorString = EMPTY_STRING THEN EMPTY_STRING
                  ELSE c.GetVendorString \o SUFFIX_CVENDOR
    IN ConstructID(<< <<EMPTY_STRING,    vendor>>,
                      <<EMPTY_STRING,    c.GetCclassName>>,
                      <<PREFIX_CBUNDLE,  c.GetCbundleName>>,
                      <<PREFIX_CGROUP,   c.GetCgroupName>>,
                      <<PREFIX_CSUB,     c.GetCsubName>>,
                      <<PREFIX_CSUB,     c.GetCvariantName>>,
                      <<PREFIX_CVERSION, c.GetVersionString>> >>)

\* ProjMgrUtils::GetComponentID
GetComponentID(c) ==
  IF c = NullItem THEN EMPTY_STRING
  ELSE
    LET vendor == IF c.GetVendorString = EMPTY_STRING THEN EMPTY_STRING
                  ELSE c.GetVendorString \o SUFFIX_CVENDOR
    IN ConstructID(<< <<EMPTY_STRING,    vendor>>,
                      <<EMPTY_STRING,    c.GetCclassName>>,
                      <<PREFIX_CBUNDLE,  c.GetCbundleName>>,
                      <<PREFIX_CGROUP,   c.GetCgroupName>>,
                      <<PREFIX_CSUB,     c.GetCsubName>>,
                      <<PREFIX_CVARIANT, c.GetCvariantName>>,
                      <<PREFIX_CVERSION, c.GetVersionString>> >>)

\* ProjMgrUtils::GetComponentAggregateID
GetComponentAggregateID(c) ==
  IF c = NullItem THEN EMPTY_STRING
  ELSE
    LET vendor == IF c.GetVendorString = EMPTY_STRING THEN EMPTY_STRING
                  ELSE c.GetVendorString \o SUFFIX_CVENDOR
    IN ConstructID(<< <<EMPTY_STRING,    vendor>>,
                      <<EMPTY_STRING,    c.GetCclassName>>,
                      <<PREFIX_CBUNDLE,  c.GetCbundleName>>,
                      <<PREFIX_CGROUP,   c.GetCgroupName>>,
                      <<PREFIX_CSUB,     c.GetCsubName>> >>)

\* ProjMgrUtils::GetPartialComponentID
GetPartialComponentID(c) ==
  IF c = NullItem THEN EMPTY_STRING
  ELSE ConstructID(<< <<EMPTY_STRING,    c.GetCclassName>>,
                      <<PREFIX_CBUNDLE,  c.GetCbundleName>>,
                      <<PREFIX_CGROUP,   c.GetCgroupName>>,
                      <<PREFIX_CSUB,     c.GetCsubName>>,
                      <<PREFIX_CVARIANT, c.GetCvariantName>> >>)

\* ProjMgrUtils::GetPackageID(const RteItem* pack)
GetPackageID(pack) ==
  IF pack = NullItem THEN EMPTY_STRING
  ELSE
    LET vendor == IF pack.GetVendorString = EMPTY_STRING THEN EMPTY_STRING
                  ELSE pack.GetVendorString \o SUFFIX_PACK_VENDOR
    IN ConstructID(<< <<EMPTY_STRING,        vendor>>,
                      <<EMPTY_STRING,        pack.GetName>>,
                      <<PREFIX_PACK_VERSION, pack.GetVersionString>> >>)

\* ProjMgrUtils::GetPackageID(packVendor, packName, packVersion)
GetPackageIDStr(packVendor, packName, packVersion) ==
  LET vendor == packVendor \o SUFFIX_PACK_VENDOR
  IN ConstructID(<< <<EMPTY_STRING,        vendor>>,
                    <<EMPTY_STRING,        packName>>,
                    <<PREFIX_PACK_VERSION, packVersion>> >>)

----------------------------------------------------------------------------
(* Identifier decomposition *)

\* the segment loop of ComponentAttributesFromId, index counted from 0
RECURSIVE SegmentLoop(_, _, _)
SegmentLoop(attrs, segments, index) ==
  IF segments = <<>> THEN attrs
  ELSE
    LET s == Head(segments)
        next ==
          CASE index = 0 ->
                 AddAttribute(
                   AddAttribute(attrs, "Cclass", GetPrefix(s, PREFIX_CBUNDLE_CHAR), TRUE),
                   "Cbundle", GetSuffix(s, PREFIX_CBUNDLE_CHAR), FALSE)
            [] index = 1 ->
                 AddAttribute(
                   AddAttribute(attrs, "Cgroup", GetPrefix(s, PREFIX_CVARIANT_CHAR), TRUE),
                   "Cvariant", GetSuffix(s, PREFIX_CVARIANT_CHAR), FALSE)
            [] index = 2 ->
                 AddAttribute(
                   AddAttribute(attrs, "Csub", GetPrefix(s, PREFIX_CVARIANT_CHAR), TRUE),
                   "Cvariant", GetSuffix(s, PREFIX_CVARIANT_CHAR), FALSE)
            [] OTHER -> attrs
    IN SegmentLoop(next, Tail(segments), index + 1)

\* ComponentAttributesFromId that goes on with the whole identifier after
\* reading the vendor, instead of the text behind "::"
ComponentAttributesFromId_KeepVendor(componentId) ==
  LET hasVendor == Find(componentId, SUFFIX_CVENDOR) # NPOS
      a1 == IF hasVendor
              THEN AddAttribute(NoAttributes, "Cvendor",
                                RemoveSuffixByString(componentId, SUFFIX_CVENDOR), TRUE)
              ELSE NoAttributes
      a2 == AddAttribute(a1, "Cversion", GetSuffix(componentId, PREFIX_CVERSION_CHAR), TRUE)
      id3 == GetPrefix(componentId, PREFIX_CVERSION_CHAR)
  IN SegmentLoop(a2, SplitString(id3, ":"), 0)

\* ProjMgrUtils::ComponentAttributesFromId
ComponentAttributesFromId(componentId) ==
  LET hasVendor == Find(componentId, SUFFIX_CVENDOR) # NPOS
      a1 == IF hasVendor
              THEN AddAttribute(NoAttributes, "Cvendor",
                                RemoveSuffixByString(componentId, SUFFIX_CVENDOR), TRUE)
              ELSE NoAttributes
      id1 == IF hasVendor
               THEN RemovePrefixByString(componentId, SUFFIX_CVENDOR)
               ELSE componentId
      a2 == AddAttribute(a1, "Cversion", GetSuffix(id1, PREFIX_CVERSION_CHAR), TRUE)
      id3 == GetPrefix(id1, PREFIX_CVERSION_CHAR)
  IN SegmentLoop(a2, SplitString(id3, ":"), 0)

----------------------------------------------------------------------------
(* Values of the variables a specification does not use *)

IdIdle ==
  /\ component = NullItem
  /\ component2 = NullItem
  /\ id = EMPTY_STRING
  /\ idKind = "none"
  /\ id2 = EMPTY_STRING
  /\ attributes = NoAttributes

VerIdle ==
  /\ first = EMPTY_STRING
  /\ second = EMPTY_STRING
  /\ intersection = EMPTY_STRING
  /\ intersectionIn = EMPTY_STRING
  /\ expanded = [name |-> EMPTY_STRING, minVer |-> EMPTY_STRING, maxVer |-> EMPTY_STRING]
  /\ compatible = TRUE

CtxIdle ==
  /\ contextEntry = EMPTY_STRING
  /\ context = [project |-> EMPTY_STRING, build |-> EMPTY_STRING, target |-> EMPTY_STRING]

PushIdle ==
  /\ collectionKind = "vector"
  /\ collection = <<>>
  /\ initial = <<>>
  /\ pushed = <<>>

MergeIdle ==
  /\ accumulator = EMPTY_STRING
  /\ merged = <<>>

----------------------------------------------------------------------------
(* Specification of the identifier codec: one item, every get-ID operation *)
(* and the decomposition of the identifier returned last                   *)

InitId ==
  /\ op = "init"
  /\ component \in ItemsOrNull
  /\ component2 = NullItem
  /\ id = EMPTY_STRING
  /\ idKind = "none"
  /\ id2 = EMPTY_STRING
  /\ attributes = NoAttributes
  /\ VerIdle
  /\ CtxIdle
  /\ PushIdle
  /\ MergeIdle

\* a get-ID call on the item: the returned string replaces id
Returned(kind, value) ==
  /\ op' = kind
  /\ id' = value
  /\ idKind' = kind
  /\ UNCHANGED <<component, component2, id2, attributes, verVars, ctxVars, pushVars, mergeVars>>

DoGetComponentID ==
  Returned("GetComponentID", GetComponentID(component))

DoGetComponentAggregateID ==
  Returned("GetComponentAggregateID", GetComponentAggregateID(component))

DoGetPartialComponentID ==
  Returned("GetPartialComponentID", GetPartialComponentID(component))

DoGetPackageID ==
  Returned("GetPackageID", GetPackageID(component))

\* the three-string overload, called with the vendor, name and version strings
\* read from the item
DoGetPackageIDStr ==
  /\ component # NullItem
  /\ Returned("GetPackageIDStr",
              GetPackageIDStr(component.GetVendorString, component.GetName,
                              component.GetVersionString))

\* the identifier returned last is parsed back
DoComponentAttributesFromId ==
  /\ idKind # "none"
  /\ op' = "ComponentAttributesFromId"
  /\ attributes' = ComponentAttributesFromId(id)
  /\ UNCHANGED <<component, component2, id, idKind, id2, verVars, ctxVars, pushVars, mergeVars>>

NextId ==
  \/ DoGetComponentID
  \/ DoGetComponentAggregateID
  \/ DoGetPartialComponentID
  \/ DoGetPackageID
  \/ DoGetPackageIDStr
  \/ DoComponentAttributesFromId

SpecId == InitId /\ [][NextId]_vars

----------------------------------------------------------------------------
(* Claims on the identifier codec *)

\* the value stored under key, empty when the key is absent
Attr(attrs, key) == IF key \in DOMAIN attrs THEN attrs[key] ELSE EMPTY_STRING

\* the attribute map that holds every field of c under its own key
RoundTrips(c, attrs) ==
  /\ Attr(attrs, "Cvendor")  = c.GetVendorString
  /\ Attr(attrs, "Cclass")   = c.GetCclassName
  /\ Attr(attrs, "Cbundle")  = c.GetCbundleName
  /\ Attr(attrs, "Cgroup")   = c.GetCgroupName
  /\ Attr(attrs, "Csub")     = c.GetCsubName
  /\ Attr(attrs, "Cvariant") = c.GetCvariantName
  /\ Attr(attrs, "Cversion") = c.GetVersionString

\* the state in which a full component identifier has just been parsed back
Decomposed ==
  /\ op = "ComponentAttributesFromId"
  /\ idKind = "GetComponentID"
  /\ component # NullItem
  /\ component.GetCclassName # EMPTY_STRING

\* the group is present whenever a sub-name or a variant is
GroupLeads(c) ==
  (c.GetCsubName # EMPTY_STRING \/ c.GetCvariantName # EMPTY_STRING)
     => c.GetCgroupName # EMPTY_STRING

\* C1 (as stated): decomposing the identifier of any attribute set with a
\* non-empty class name returns every populated field under its own key and
\* gives no unpopulated field a value.
C1_RoundTripAnySubset ==
  Decomposed => RoundTrips(component, attributes)

\* C1 (amended): the same round trip, for attribute sets whose group is
\* populated whenever the sub-name or the variant is.
C1_RoundTripWithGroup ==
  (Decomposed /\ GroupLeads(component)) => RoundTrips(component, attributes)

\* a full attribute set (all seven fields populated) has been parsed back
C1_Witness ==
  /\ Decomposed
  /\ GroupLeads(component)
  /\ component.GetVendorString # EMPTY_STRING
  /\ component.GetCbundleName # EMPTY_STRING
  /\ component.GetCgroupName # EMPTY_STRING
  /\ component.GetCsubName # EMPTY_STRING
  /\ component.GetCvariantName # EMPTY_STRING
  /\ component.GetVersionString # EMPTY_STRING
  /\ RoundTrips(component, attributes)

----------------------------------------------------------------------------
(* Specification of identifier pairs: two components, both identifiers *)

\* components as the data model has them: the class name is always present;
\* the pack name plays no part in a component identifier
Components == {c \in Items : c.GetCclassName # EMPTY_STRING /\ c.GetName = EMPTY_STRING}

InitPair ==
  /\ op = "init"
  /\ component \in Components
  /\ component2 \in Components
  /\ id = EMPTY_STRING
  /\ idKind = "none"
  /\ id2 = EMPTY_STRING
  /\ attributes = NoAttributes
  /\ VerIdle
  /\ CtxIdle
  /\ PushIdle
  /\ MergeIdle

\* GetComponentID is called on each of the two components
DoGetComponentIDPair ==
  /\ op = "init"
  /\ op' = "GetComponentIDPair"
  /\ id' = GetComponentID(component)
  /\ id2' = GetComponentID(component2)
  /\ idKind' = "GetComponentID"
  /\ UNCHANGED <<component, component2, attributes, verVars, ctxVars, pushVars, mergeVars>>

NextPair == DoGetComponentIDPair

SpecPair == InitPair /\ [][NextPair]_vars

\* the two attribute sets differ in at least one of the seven fields
Differ(c, d) ==
  \/ c.GetVendorString  # d.GetVendorString
  \/ c.GetCclassName    # d.GetCclassName
  \/ c.GetCbundleName   # d.GetCbundleName
  \/ c.GetCgroupName    # d.GetCgroupName
  \/ c.GetCsubName      # d.GetCsubName
  \/ c.GetCvariantName  # d.GetCvariantName
  \/ c.GetVersionString # d.GetVersionString

\* C2 (as stated): two attribute sets that differ in some field never get the
\* same component identifier.
C2_CollisionFree ==
  (op = "GetComponentIDPair" /\ Differ(component, component2)) => id # id2

\* C2 (amended): two attribute sets that differ in some field, each with its
\* group populated whenever its sub-name or variant is, never get the same
\* component identifier.
C2_CollisionFreeWithGroup ==
  (/\ op = "GetComponentIDPair"
   /\ Differ(component, component2)
   /\ GroupLeads(component)
   /\ GroupLeads(component2)) => id # id2

\* two attribute sets with the same populated values, one carrying the value
\* as variant and the other as sub-name, have got different identifiers
C2_Witness ==
  /\ op = "GetComponentIDPair"
  /\ GroupLeads(component)
  /\ GroupLeads(component2)
  /\ component.GetCgroupName = component2.GetCgroupName
  /\ component.GetCsubName # EMPTY_STRING
  /\ component.GetCvariantName = EMPTY_STRING
  /\ component2.GetCsubName = EMPTY_STRING
  /\ component2.GetCvariantName = component.GetCsubName
  /\ id # id2

----------------------------------------------------------------------------
(* C3: what every get-ID operation is said to return *)

\* a field with its leading delimiter, nothing at all when the field is empty
Part(delimiter, value) == IF value = EMPTY_STRING THEN EMPTY_STRING ELSE delimiter \o value

\* the vendor with its trailing "::", nothing at all when the vendor is empty
VendorPart(value) == IF value = EMPTY_STRING THEN EMPTY_STRING ELSE value \o <<":", ":">>

\* C3: the identifier returned by each get-ID operation is the concatenation,
\* in the fixed field order, of delimiter+value for exactly the non-empty
\* fields; an empty field (an empty vendor included) contributes nothing.
C3_EmptyFieldsContributeNothing ==
  (component # NullItem) =>
    LET c == component IN
    /\ (op = "GetComponentID") =>
          id = VendorPart(c.GetVendorString) \o c.GetCclassName
                 \o Part(<<"&">>, c.GetCbundleName) \o Part(<<":">>, c.GetCgroupName)
                 \o Part(<<":">>, c.GetCsubName) \o Part(<<"&">>, c.GetCvariantName)
                 \o Part(<<"@">>, c.GetVersionString)
    /\ (op = "GetComponentAggregateID") =>
          id = VendorPart(c.GetVendorString) \o c.GetCclassName
                 \o Part(<<"&">>, c.GetCbundleName) \o Part(<<":">>, c.GetCgroupName)
                 \o Part(<<":">>, c.GetCsubName)
    /\ (op = "GetPartialComponentID") =>
          id = c.GetCclassName
                 \o Part(<<"&">>, c.GetCbundleName) \o Part(<<":">>, c.GetCgroupName)
                 \o Part(<<":">>, c.GetCsubName) \o Part(<<"&">>, c.GetCvariantName)
    /\ (op = "GetPackageID") =>
          id = VendorPart(c.GetVendorString) \o c.GetName
                 \o Part(<<"@">>, c.GetVersionString)
    /\ (op = "GetPackageIDStr") =>
          id = VendorPart(c.GetVendorString) \o c.GetName
                 \o Part(<<"@">>, c.GetVersionString)

----------------------------------------------------------------------------
(* VersionCmp::Compare (libs/rteutils): dotted-numeric precedence *)

\* value of one character of a version segment; outside the version syntax
\* the comparator is not specified, such characters count as 0
DigitVal(ch) ==
  CASE ch = "0" -> 0 [] ch = "1" -> 1 [] ch = "2" -> 2 [] ch = "3" -> 3
    [] ch = "4" -> 4 [] ch = "5" -> 5 [] ch = "6" -> 6 [] ch = "7" -> 7
    [] ch = "8" -> 8 [] ch = "9" -> 9 [] OTHER -> 0

\* numeric value of a segment, 0 for an empty one
RECURSIVE SegmentVal(_, _)
SegmentVal(seg, acc) ==
  IF seg = <<>> THEN acc ELSE SegmentVal(Tail(seg), 10 * acc + DigitVal(Head(seg)))

\* the n-th dot-separated number of a version, 0 when the version has fewer
VersionPart(v, n) ==
  LET segs == SplitString(v, ".")
  IN IF n <= Len(segs) THEN SegmentVal(segs[n], 0) ELSE 0

\* number of dot-separated segments compared
VersionParts == 3

\* VersionCmp::Compare(v1, v2): negative, zero or positive
Compare(v1, v2) ==
  LET diff == {n \in 1..VersionParts : VersionPart(v1, n) # VersionPart(v2, n)}
  IN IF diff = {} THEN 0
     ELSE LET n == CHOOSE m \in diff : \A k \in diff : m <= k
          IN IF VersionPart(v1, n) < VersionPart(v2, n) THEN -1 ELSE 1

----------------------------------------------------------------------------
(* Compiler specifier algebra *)

\* the lowest version, written by ExpandCompilerId for "any version"
ANY_VERSION == <<"0", ".", "0", ".", "0">>

\* ProjMgrUtils::ExpandCompilerId; name, minVer and maxVer are the strings
\* behind the three output references, the result is what they hold on return
ExpandCompilerId(compiler, name, minVer, maxVer) ==
  LET version == GetSuffix(compiler, "@")
  IN IF version = EMPTY_STRING
       THEN [name |-> GetPrefix(compiler, "@"), minVer |-> ANY_VERSION, maxVer |-> maxVer]
       ELSE IF Find(version, <<">", "=">>) # NPOS
         THEN [name |-> GetPrefix(compiler, "@"), minVer |-> SubstrFrom(version, 3),
               maxVer |-> maxVer]
         ELSE [name |-> GetPrefix(compiler, "@"), minVer |-> version, maxVer |-> version]

\* the callers' locals: string firstName, firstMin, firstMax; ExpandCompilerId(first, ...)
ExpandFresh(compiler) == ExpandCompilerId(compiler, EMPTY_STRING, EMPTY_STRING, EMPTY_STRING)

\* AreCompilersCompatible without the check of second's maximum
AreCompilersCompatible_OneSided(a, b) ==
  IF a # EMPTY_STRING /\ b # EMPTY_STRING
    THEN LET f == ExpandFresh(a)
             g == ExpandFresh(b)
         IN ~ (\/ f.name # g.name
               \/ (/\ f.maxVer # EMPTY_STRING /\ g.minVer # EMPTY_STRING
                   /\ Compare(f.maxVer, g.minVer) < 0))
    ELSE TRUE

\* AreCompilersCompatible without the check of first's maximum
AreCompilersCompatible_DropFirst(a, b) ==
  IF a # EMPTY_STRING /\ b # EMPTY_STRING
    THEN LET f == ExpandFresh(a)
             g == ExpandFresh(b)
         IN ~ (\/ f.name # g.name
               \/ (/\ g.maxVer # EMPTY_STRING /\ f.minVer # EMPTY_STRING
                   /\ Compare(g.maxVer, f.minVer) < 0))
    ELSE TRUE

\* ProjMgrUtils::AreCompilersCompatible
AreCompilersCompatible(a, b) ==
  IF a # EMPTY_STRING /\ b # EMPTY_STRING
    THEN LET f == ExpandFresh(a)
             g == ExpandFresh(b)
         IN ~ (\/ f.name # g.name
               \/ (/\ f.maxVer # EMPTY_STRING /\ g.minVer # EMPTY_STRING
                   /\ Compare(f.maxVer, g.minVer) < 0)
               \/ (/\ g.maxVer # EMPTY_STRING /\ f.minVer # EMPTY_STRING
                   /\ Compare(g.maxVer, f.minVer) < 0))
    ELSE TRUE

\* IntersectBody taking the lesser of the two mins
IntersectBody_LesserMin(a, b, out) ==
  LET f == ExpandFresh(a)
      g == ExpandFresh(b)
      firstMax  == IF f.maxVer = EMPTY_STRING THEN g.maxVer ELSE f.maxVer
      secondMax == IF g.maxVer = EMPTY_STRING THEN firstMax ELSE g.maxVer
      intersectName == IF f.name = EMPTY_STRING THEN g.name ELSE f.name
      intersectMin  == IF Compare(f.minVer, g.minVer) > 0 THEN g.minVer ELSE f.minVer
      intersectMax  == IF Compare(firstMax, secondMax) > 0 THEN secondMax ELSE firstMax
  IN IF intersectMax = EMPTY_STRING
       THEN IF Compare(intersectMin, ANY_VERSION) = 0
              THEN intersectName
              ELSE intersectName \o <<"@", ">", "=">> \o intersectMin
       ELSE IF intersectMin = intersectMax
              THEN intersectName \o <<"@">> \o intersectMin
              ELSE out

\* IntersectBody in which first does not inherit second's max
IntersectBody_NoInherit(a, b, out) ==
  LET f == ExpandFresh(a)
      g == ExpandFresh(b)
      firstMax  == f.maxVer
      secondMax == IF g.maxVer = EMPTY_STRING THEN firstMax ELSE g.maxVer
      intersectName == IF f.name = EMPTY_STRING THEN g.name ELSE f.name
      intersectMin  == IF Compare(f.minVer, g.minVer) < 0 THEN g.minVer ELSE f.minVer
      intersectMax  == IF Compare(firstMax, secondMax) > 0 THEN secondMax ELSE firstMax
  IN IF intersectMax = EMPTY_STRING
       THEN IF Compare(intersectMin, ANY_VERSION) = 0
              THEN intersectName
              ELSE intersectName \o <<"@", ">", "=">> \o intersectMin
       ELSE IF intersectMin = intersectMax
              THEN intersectName \o <<"@">> \o intersectMin
              ELSE out

\* IntersectBody taking second's min whatever first's is
IntersectBody_SecondMin(a, b, out) ==
  LET f == ExpandFresh(a)
      g == ExpandFresh(b)
      firstMax  == IF f.maxVer = EMPTY_STRING THEN g.maxVer ELSE f.maxVer
      secondMax == IF g.maxVer = EMPTY_STRING THEN firstMax ELSE g.maxVer
      intersectName == IF f.name = EMPTY_STRING THEN g.name ELSE f.name
      intersectMin  == g.minVer
      intersectMax  == IF Compare(firstMax, secondMax) > 0 THEN secondMax ELSE firstMax
  IN IF intersectMax = EMPTY_STRING
       THEN IF Compare(intersectMin, ANY_VERSION) = 0
              THEN intersectName
              ELSE intersectName \o <<"@", ">", "=">> \o intersectMin
       ELSE IF intersectMin = intersectMax
              THEN intersectName \o <<"@">> \o intersectMin
              ELSE out

\* the part of CompilersIntersect after the early return; out is the string
\* behind the output reference
IntersectBody(a, b, out) ==
  LET f == ExpandFresh(a)
      g == ExpandFresh(b)
      firstMax  == IF f.maxVer = EMPTY_STRING THEN g.maxVer ELSE f.maxVer
      secondMax == IF g.maxVer = EMPTY_STRING THEN firstMax ELSE g.maxVer
      intersectName == IF f.name = EMPTY_STRING THEN g.name ELSE f.name
      intersectMin  == IF Compare(f.minVer, g.minVer) < 0 THEN g.minVer ELSE f.minVer
      intersectMax  == IF Compare(firstMax, secondMax) > 0 THEN secondMax ELSE firstMax
  IN IF intersectMax = EMPTY_STRING
       THEN IF Compare(intersectMin, ANY_VERSION) = 0
              THEN intersectName
              ELSE intersectName \o <<"@", ">", "=">> \o intersectMin
       ELSE IF intersectMin = intersectMax
              THEN intersectName \o <<"@">> \o intersectMin
              ELSE out

\* ProjMgrUtils::CompilersIntersect: the string the output reference holds on return
CompilersIntersect(a, b, out) ==
  IF (a = EMPTY_STRING /\ b = EMPTY_STRING) \/ ~ AreCompilersCompatible(a, b)
    THEN out
    ELSE IntersectBody(a, b, out)

----------------------------------------------------------------------------
(* Specification of the compiler specifier algebra *)

\* number of version strings the specifiers are built from
NumVers == 4

VerSeq == << <<"1", ".", "0", ".", "0">>, <<"2", ".", "0", ".", "0">>,
             <<"1", ".", "0">>, <<"0", ".", "0", ".", "0">>,
             <<"1", ".", "5", ".", "0">> >>

Versions == {VerSeq[i] : i \in 1..NumVers}

CompilerNames == {EMPTY_STRING, <<"G", "C", "C">>, <<"A", "C", "6">>}

\* version clauses: none, a bare '@', fixed, minimum (also with nothing after
\* ">="), and one with ">=" past its beginning
Clauses ==
  {EMPTY_STRING, <<"@">>, <<"@", ">", "=">>, <<"@", "1", ">", "=", "2">>}
    \cup {<<"@">> \o v : v \in Versions}
    \cup {<<"@", ">", "=">> \o v : v \in Versions}

Specifiers == {n \o c : n \in CompilerNames, c \in Clauses}

\* what the caller's output string may hold before CompilersIntersect is called
StaleOutputs == {EMPTY_STRING, <<"I", "A", "R">>}

InitVer ==
  /\ op = "init"
  /\ IdIdle
  /\ first \in Specifiers
  /\ second \in Specifiers
  /\ intersection \in StaleOutputs
  /\ intersectionIn = EMPTY_STRING
  /\ expanded = [name |-> EMPTY_STRING, minVer |-> EMPTY_STRING, maxVer |-> EMPTY_STRING]
  /\ compatible = TRUE
  /\ CtxIdle
  /\ PushIdle
  /\ MergeIdle

\* ExpandCompilerId(first, name, minVer, maxVer) on freshly declared strings
DoExpandCompilerId ==
  /\ op' = "ExpandCompilerId"
  /\ expanded' = ExpandFresh(first)
  /\ UNCHANGED <<idVars, first, second, intersection, intersectionIn, compatible, ctxVars, pushVars, mergeVars>>

DoAreCompilersCompatible ==
  /\ op' = "AreCompilersCompatible"
  /\ compatible' = AreCompilersCompatible(first, second)
  /\ UNCHANGED <<idVars, first, second, intersection, intersectionIn, expanded, ctxVars, pushVars, mergeVars>>

DoCompilersIntersect ==
  /\ op' = "CompilersIntersect"
  /\ intersectionIn' = intersection
  /\ intersection' = CompilersIntersect(first, second, intersection)
  /\ UNCHANGED <<idVars, first, second, expanded, compatible, ctxVars, pushVars, mergeVars>>

NextVer ==
  \/ DoExpandCompilerId
  \/ DoAreCompilersCompatible
  \/ DoCompilersIntersect

SpecVer == InitVer /\ [][NextVer]_vars

----------------------------------------------------------------------------
(* Claims on the compiler specifier algebra *)

\* v lies in the range [minVer, maxVer] of an expanded specifier (no maxVer:
\* unbounded above)
InRange(v, e) ==
  /\ Compare(e.minVer, v) <= 0
  /\ (e.maxVer = EMPTY_STRING \/ Compare(v, e.maxVer) <= 0)

\* the ranges of two expanded specifiers share a version; two ranges that
\* share any version share one of their own bounds
RangesShare(f, g) ==
  \E v \in Versions \cup {f.minVer, g.minVer, f.maxVer, g.maxVer} :
    InRange(v, f) /\ InRange(v, g)

\* C4: AreCompilersCompatible is true when either specifier is empty; for two
\* non-empty ones it is false exactly when the names differ, or first.max is
\* defined and below second.min, or second.max is defined and below
\* first.min; so with equal names it is true exactly when the ranges share a
\* version.
C4_CompatibleIffRangesShare ==
  (op = "AreCompilersCompatible") =>
    LET f == ExpandFresh(first)
        g == ExpandFresh(second)
    IN IF first = EMPTY_STRING \/ second = EMPTY_STRING
         THEN compatible = TRUE
         ELSE /\ compatible = FALSE <=>
                   \/ f.name # g.name
                   \/ (f.maxVer # EMPTY_STRING /\ Compare(f.maxVer, g.minVer) < 0)
                   \/ (g.maxVer # EMPTY_STRING /\ Compare(g.maxVer, f.minVer) < 0)
              /\ (f.name = g.name) => (compatible = RangesShare(f, g))

\* a fixed version below the other specifier's minimum was found incompatible
\* through the check of second's maximum
C4_Witness ==
  /\ op = "AreCompilersCompatible"
  /\ first = <<"G", "C", "C", "@", ">", "=", "2", ".", "0", ".", "0">>
  /\ second = <<"G", "C", "C", "@", "1", ".", "0", ".", "0">>
  /\ compatible = FALSE

\* C6: AreCompilersCompatible(a, b) = AreCompilersCompatible(b, a).
C6_CompatibleSymmetric ==
  (op = "AreCompilersCompatible") => (compatible = AreCompilersCompatible(second, first))

\* a fixed version and a higher minimum, in this order, were found incompatible
C6_Witness ==
  /\ op = "AreCompilersCompatible"
  /\ first = <<"G", "C", "C", "@", "1", ".", "0", ".", "0">>
  /\ second = <<"G", "C", "C", "@", ">", "=", "2", ".", "0", ".", "0">>
  /\ compatible = FALSE
  /\ AreCompilersCompatible(second, first) = FALSE

\* a specifier of the form name, name@version or name@>=version
WellFormed(spec) ==
  \E n \in CompilerNames \ {EMPTY_STRING} :
    \/ spec = n
    \/ \E v \in Versions : spec = n \o <<"@">> \o v \/ spec = n \o <<"@", ">", "=">> \o v

\* the bounds of two expanded specifiers, with the lowest version
BoundsOf(f, g) ==
  ({f.minVer, f.maxVer, g.minVer, g.maxVer} \ {EMPTY_STRING}) \cup {ANY_VERSION}

\* versions written canonically: versions the comparator ranks equal are the
\* same string
Canonical(f, g) ==
  \A v \in BoundsOf(f, g), w \in BoundsOf(f, g) : (Compare(v, w) = 0) => (v = w)

\* the greater of two versions
Greater(v, w) == IF Compare(v, w) < 0 THEN w ELSE v

\* the lesser of two maxima, an absent one leaving the other
LesserMax(v, w) ==
  IF v = EMPTY_STRING THEN w
  ELSE IF w = EMPTY_STRING THEN v
  ELSE IF Compare(v, w) > 0 THEN w ELSE v

\* the case C5 is about: two compatible well-formed specifiers, or one
\* well-formed specifier and the empty string, versions written canonically
C5_Case ==
  /\ \/ WellFormed(first) /\ WellFormed(second) /\ AreCompilersCompatible(first, second)
     \/ first = EMPTY_STRING /\ WellFormed(second)
     \/ WellFormed(first) /\ second = EMPTY_STRING
  /\ Canonical(ExpandFresh(first), ExpandFresh(second))

\* C5: in that case CompilersIntersect writes a non-empty specifier that
\* expands to the shared name, the greater of the two mins and the lesser of
\* the defined maxes (absent when neither has one).
C5_IntersectBounds ==
  (op = "CompilersIntersect" /\ C5_Case) =>
    LET f == ExpandFresh(first)
        g == ExpandFresh(second)
        e == ExpandFresh(intersection)
    IN /\ intersection # EMPTY_STRING
       /\ e.name = (IF first = EMPTY_STRING THEN g.name ELSE f.name)
       /\ e.minVer = Greater(f.minVer, g.minVer)
       /\ e.maxVer = LesserMax(f.maxVer, g.maxVer)

\* Intersect("GCC", "GCC@>=2.0.0") has given "GCC@>=2.0.0"
C5_Witness ==
  /\ op = "CompilersIntersect"
  /\ C5_Case
  /\ first = <<"G", "C", "C">>
  /\ second = <<"G", "C", "C", "@", ">", "=", "2", ".", "0", ".", "0">>
  /\ intersection = <<"G", "C", "C", "@", ">", "=", "2", ".", "0", ".", "0">>

\* CompilersIntersect(second, first, out) on an empty output string
Reverse == CompilersIntersect(second, first, EMPTY_STRING)

\* CompilersIntersect has run on an empty output string and both orders of
\* the arguments produce a non-empty output
C7_Case ==
  /\ op = "CompilersIntersect"
  /\ intersectionIn = EMPTY_STRING
  /\ intersection # EMPTY_STRING
  /\ Reverse # EMPTY_STRING

\* C7 (as stated): the two outputs expand to the same name, the same min and
\* the same max.
C7_IntersectCommutes ==
  C7_Case => (ExpandFresh(intersection) = ExpandFresh(Reverse))

\* C7 (amended): the two outputs expand to the same name, and to mins and to
\* maxes that the version comparator ranks equal (both maxes absent, or both
\* defined); they are the same strings when the versions of the two inputs
\* are written canonically.
C7_IntersectCommutesUpToCompare ==
  C7_Case =>
    LET e == ExpandFresh(intersection)
        r == ExpandFresh(Reverse)
    IN /\ e.name = r.name
       /\ Compare(e.minVer, r.minVer) = 0
       /\ (e.maxVer = EMPTY_STRING) = (r.maxVer = EMPTY_STRING)
       /\ Compare(e.maxVer, r.maxVer) = 0
       /\ Canonical(ExpandFresh(first), ExpandFresh(second)) => (e = r)

\* a minimum and a higher fixed version were intersected, the result being
\* the fixed version in both orders
C7_Witness ==
  /\ C7_Case
  /\ first = <<"G", "C", "C", "@", ">", "=", "1", ".", "0", ".", "0">>
  /\ second = <<"G", "C", "C", "@", "2", ".", "0", ".", "0">>
  /\ intersection = second
  /\ Reverse = second

\* C8: CompilersIntersect called with both inputs empty, or with incompatible
\* inputs, yields an empty intersection string.
C8_EmptyOnNoIntersection ==
  (/\ op = "CompilersIntersect"
   /\ \/ first = EMPTY_STRING /\ second = EMPTY_STRING
      \/ ~ AreCompilersCompatible(first, second))
    => intersection = EMPTY_STRING

\* the text before the first '@', the whole string when there is none
BeforeAt(spec) ==
  IF \E i \in 1..Len(spec) : spec[i] = "@"
    THEN SubSeq(spec, 1, (CHOOSE i \in 1..Len(spec) :
                            spec[i] = "@" /\ \A j \in 1..(i - 1) : spec[j] # "@") - 1)
    ELSE spec

\* the version clause: the text after the '@', empty when there is none
ClauseOf(spec) ==
  IF \E i \in 1..Len(spec) : spec[i] = "@"
    THEN SubSeq(spec, (CHOOSE i \in 1..Len(spec) :
                         spec[i] = "@" /\ \A j \in (i + 1)..Len(spec) : spec[j] # "@") + 1,
                Len(spec))
    ELSE EMPTY_STRING

\* C9: ExpandCompilerId yields the name before '@'; an empty clause gives
\* min "0.0.0" and no max, a clause beginning with ">=" gives min = the rest
\* and no max, any other clause gives min = max = the clause.
C9_ExpandByClause ==
  (op = "ExpandCompilerId") =>
    LET clause == ClauseOf(first)
    IN /\ expanded.name = BeforeAt(first)
       /\ IF clause = EMPTY_STRING
            THEN expanded.minVer = <<"0", ".", "0", ".", "0">> /\ expanded.maxVer = EMPTY_STRING
            ELSE IF Len(clause) >= 2 /\ SubSeq(clause, 1, 2) = <<">", "=">>
              THEN /\ expanded.minVer = SubSeq(clause, 3, Len(clause))
                   /\ expanded.maxVer = EMPTY_STRING
              ELSE expanded.minVer = clause /\ expanded.maxVer = clause

----------------------------------------------------------------------------
(* Context entry parser *)

\* positions of the characters of s that are in the set chars
Positions(s, chars) == {i \in 1..Len(s) : s[i] \in chars}

MinOf(S) == CHOOSE i \in S : \A j \in S : i <= j
MaxOf(S) == CHOOSE i \in S : \A j \in S : i >= j

\* regex_match against  ^(.*?)[.+].*$|^(.*)$  : the reluctant group ends
\* before the first '.' or '+'; without one the second alternative takes the
\* whole string
MatchProject(s) ==
  LET seps == Positions(s, {".", "+"})
  IN IF seps # {} THEN SubSeq(s, 1, MinOf(seps) - 1) ELSE s

\* regex_match against  ^.*<open>(.*)<close>.*$|^.*<open>(.*).*$  with greedy
\* quantifiers: the leading .* gives back as little as it must, so the first
\* alternative takes the last <open> that has a <close> behind it and its
\* group runs to the last <close>; the second alternative takes the last
\* <open> and its group runs to the end; no match leaves the field empty
MatchBetween(s, open, close) ==
  LET opens  == Positions(s, {open})
      closes == Positions(s, {close})
      alt1   == {i \in opens : \E j \in closes : j > i}
  IN IF alt1 # {}
       THEN SubSeq(s, MaxOf(alt1) + 1, MaxOf(closes) - 1)
       ELSE IF opens # {}
         THEN SubSeq(s, MaxOf(opens) + 1, Len(s))
         ELSE EMPTY_STRING

\* ParseContextEntry whose build and target patterns lack the first
\* alternative: the group always runs to the end of the entry
ParseContextEntry_ToEnd(entry) ==
  LET dots  == Positions(entry, {"."})
      pluses == Positions(entry, {"+"})
  IN [project |-> MatchProject(entry),
      build   |-> IF dots = {} THEN EMPTY_STRING
                  ELSE SubSeq(entry, MaxOf(dots) + 1, Len(entry)),
      target  |-> IF pluses = {} THEN EMPTY_STRING
                  ELSE SubSeq(entry, MaxOf(pluses) + 1, Len(entry))]

\* ProjMgrUtils::ParseContextEntry
ParseContextEntry(entry) ==
  [project |-> MatchProject(entry),
   build   |-> MatchBetween(entry, ".", "+"),
   target  |-> MatchBetween(entry, "+", ".")]

\* longest context entry
MaxCtxLen == 5

CtxChars == {"a", "b", ".", "+"}

RECURSIVE StringsUpTo(_)
StringsUpTo(n) ==
  IF n = 0 THEN {EMPTY_STRING}
  ELSE LET shorter == StringsUpTo(n - 1)
       IN shorter \cup {Append(t, ch) : t \in shorter, ch \in CtxChars}

ContextEntries == StringsUpTo(MaxCtxLen)

InitCtx ==
  /\ op = "init"
  /\ PushIdle
  /\ MergeIdle
  /\ IdIdle
  /\ VerIdle
  /\ contextEntry \in ContextEntries
  /\ context = [project |-> EMPTY_STRING, build |-> EMPTY_STRING, target |-> EMPTY_STRING]

DoParseContextEntry ==
  /\ op' = "ParseContextEntry"
  /\ context' = ParseContextEntry(contextEntry)
  /\ UNCHANGED <<idVars, verVars, contextEntry, pushVars, mergeVars>>

NextCtx == DoParseContextEntry

SpecCtx == InitCtx /\ [][NextCtx]_vars

\* position of the only ch in s, 0 when there is none
IndexOf(s, ch) == IF \E i \in 1..Len(s) : s[i] = ch
                    THEN CHOOSE i \in 1..Len(s) : s[i] = ch
                    ELSE 0

\* the entry has at most one '.' and at most one '+'
C10_Case ==
  /\ op = "ParseContextEntry"
  /\ Cardinality(Positions(contextEntry, {"."})) <= 1
  /\ Cardinality(Positions(contextEntry, {"+"})) <= 1

\* C10: for an entry with at most one '.' and at most one '+', project is the
\* text before the first separator (the whole entry without one), build the
\* text after '.' up to the following '+' or the end (empty without '.'),
\* target the text after '+' up to the following '.' or the end (empty
\* without '+').
C10_ParseContextEntry ==
  C10_Case =>
    LET s == contextEntry
        d == IndexOf(s, ".")
        p == IndexOf(s, "+")
        firstSep == IF d = 0 THEN p ELSE IF p = 0 THEN d ELSE Min2(d, p)
    IN /\ context.project = (IF firstSep = 0 THEN s ELSE SubSeq(s, 1, firstSep - 1))
       /\ context.build   = (IF d = 0 THEN EMPTY_STRING
                             ELSE SubSeq(s, d + 1, IF p > d THEN p - 1 ELSE Len(s)))
       /\ context.target  = (IF p = 0 THEN EMPTY_STRING
                             ELSE SubSeq(s, p + 1, IF d > p THEN d - 1 ELSE Len(s)))

\* "a.b+a" and the like: project, build and target all found
C10_Witness ==
  /\ C10_Case
  /\ contextEntry = <<"a", ".", "b", "+", "a">>
  /\ context = [project |-> <<"a">>, build |-> <<"b">>, target |-> <<"a">>]

----------------------------------------------------------------------------
(* Unique append *)

\* PushBackUniquely(StrPairVec&, ...) that compares only the first member
PushBackUniquelyPairs_FirstOnly(vec, value) ==
  IF \E i \in 1..Len(vec) : value[1] = vec[i][1]
    THEN vec
    ELSE Append(vec, value)

\* ProjMgrUtils::PushBackUniquely(vector<string>& vec, const string& value)
PushBackUniquelyVec(vec, value) ==
  IF \A i \in 1..Len(vec) : vec[i] # value
    THEN Append(vec, value)
    ELSE vec

\* ProjMgrUtils::PushBackUniquely(list<string>& list, const string& value)
PushBackUniquelyList(list, value) ==
  IF \A i \in 1..Len(list) : list[i] # value
    THEN Append(list, value)
    ELSE list

\* ProjMgrUtils::PushBackUniquely(StrPairVec& vec, const StrPair& value);
\* a StrPair is <<first, second>>
PushBackUniquelyPairs(vec, value) ==
  IF \E i \in 1..Len(vec) : value[1] = vec[i][1] /\ value[2] = vec[i][2]
    THEN vec
    ELSE Append(vec, value)

\* number of distinct strings that are pushed
NumPushVals == 2

\* number of PushBackUniquely calls in a behaviour
MaxPushes == 3

\* longest collection before the first call
MaxInitLen == 2

PushStrings == {ValSeq[i] : i \in 1..NumPushVals}

PushPairs == PushStrings \X PushStrings

\* the elements a collection of the given kind holds
ElementsOf(k) == IF k = "pairs" THEN PushPairs ELSE PushStrings

\* the sequences over S of length n at most
RECURSIVE SeqsUpTo(_, _)
SeqsUpTo(S, n) ==
  IF n = 0 THEN {<<>>}
  ELSE LET shorter == SeqsUpTo(S, n - 1)
       IN shorter \cup {Append(t, x) : t \in shorter, x \in S}

\* no two elements of q are equal
NoDuplicates(q) == \A i \in 1..Len(q), j \in 1..Len(q) : (q[i] = q[j]) => (i = j)

InitPush ==
  /\ op = "init"
  /\ IdIdle
  /\ VerIdle
  /\ CtxIdle
  /\ MergeIdle
  /\ collectionKind \in {"vector", "list", "pairs"}
  /\ initial \in {q \in SeqsUpTo(ElementsOf(collectionKind), MaxInitLen) : NoDuplicates(q)}
  /\ collection = initial
  /\ pushed = <<>>

\* one call on the caller's collection; the overload follows from its type
Pushes(result, value) ==
  /\ Len(pushed) < MaxPushes
  /\ op' = "PushBackUniquely"
  /\ collection' = result
  /\ pushed' = Append(pushed, value)
  /\ UNCHANGED <<idVars, verVars, ctxVars, mergeVars, collectionKind, initial>>

DoPushBackUniquelyVec ==
  /\ collectionKind = "vector"
  /\ \E value \in PushStrings : Pushes(PushBackUniquelyVec(collection, value), value)

DoPushBackUniquelyList ==
  /\ collectionKind = "list"
  /\ \E value \in PushStrings : Pushes(PushBackUniquelyList(collection, value), value)

DoPushBackUniquelyPairs ==
  /\ collectionKind = "pairs"
  /\ \E value \in PushPairs : Pushes(PushBackUniquelyPairs(collection, value), value)

NextPush ==
  \/ DoPushBackUniquelyVec
  \/ DoPushBackUniquelyList
  \/ DoPushBackUniquelyPairs

SpecPush == InitPush /\ [][NextPush]_vars

\* the elements of q without the repetitions, in order of first occurrence
FirstOccurrences(q) ==
  LET keep == {i \in 1..Len(q) : \A j \in 1..(i - 1) : q[j] # q[i]}
  IN [k \in 1..Cardinality(keep) |->
        q[CHOOSE i \in keep : Cardinality({j \in keep : j <= i}) = k]]

\* q is an initial part of r
IsPrefix(q, r) == Len(q) <= Len(r) /\ SubSeq(r, 1, Len(q)) = q

\* C11: after any sequence of PushBackUniquely calls on a collection that
\* starts without duplicates, the collection has no two equal elements and
\* holds the initial elements and the distinct values pushed, in order of
\* first occurrence; a call with a value already present leaves it unchanged
\* and no call removes or reorders elements.
C11_PushBackUniquely ==
  /\ [](/\ NoDuplicates(collection)
        /\ collection = FirstOccurrences(initial \o pushed))
  /\ [][/\ IsPrefix(collection, collection')
        /\ (\E i \in 1..Len(collection) : collection[i] = pushed'[Len(pushed')])
              => collection' = collection]_vars

\* a pair vector has taken a pair that shares its first member with an
\* element, and has ignored a pair it already held
C11_Witness ==
  /\ collectionKind = "pairs"
  /\ initial = << <<ValSeq[1], ValSeq[1]>> >>
  /\ pushed = << <<ValSeq[1], ValSeq[2]>>, <<ValSeq[1], ValSeq[1]>> >>
  /\ collection = << <<ValSeq[1], ValSeq[1]>>, <<ValSeq[1], ValSeq[2]>> >>

----------------------------------------------------------------------------
(* Specification of repeated merging: acc := CompilersIntersect(acc, s) *)

\* number of specifiers merged in a behaviour
MaxMerges == 3

\* the name all merged specifiers carry
MergeName == <<"G", "C", "C">>

\* the well-formed specifiers of that name
MergeSpecifiers == {spec \in Specifiers : WellFormed(spec) /\ ExpandFresh(spec).name = MergeName}

InitMerge ==
  /\ op = "init"
  /\ IdIdle
  /\ VerIdle
  /\ CtxIdle
  /\ PushIdle
  /\ accumulator = EMPTY_STRING
  /\ merged = <<>>

\* one merge: string out; CompilersIntersect(acc, spec, out); acc = out
DoMerge ==
  /\ Len(merged) < MaxMerges
  /\ \E spec \in MergeSpecifiers :
       /\ accumulator' = CompilersIntersect(accumulator, spec, EMPTY_STRING)
       /\ merged' = Append(merged, spec)
  /\ op' = "Merge"
  /\ UNCHANGED <<idVars, verVars, ctxVars, pushVars>>

NextMerge == DoMerge

SpecMerge == InitMerge /\ [][NextMerge]_vars

\* the result of merging the specifiers of q in their order, starting from ""
RECURSIVE MergeAll(_)
MergeAll(q) ==
  IF q = <<>> THEN EMPTY_STRING
  ELSE CompilersIntersect(MergeAll(SubSeq(q, 1, Len(q) - 1)), q[Len(q)], EMPTY_STRING)

\* the rearrangements of q
Rearrangements(q) ==
  LET n == Len(q)
      perms == {f \in [1..n -> 1..n] : \A i \in 1..n, j \in 1..n : (f[i] = f[j]) => (i = j)}
  IN {[i \in 1..n |-> q[f[i]]] : f \in perms}

\* acc is compatible with every specifier merged so far
CompatibleWithAll ==
  \A i \in 1..Len(merged) : AreCompilersCompatible(accumulator, merged[i])

\* merging in any other order gives the same result
OrderIndependent ==
  \A q \in Rearrangements(merged) : MergeAll(q) = accumulator

\* C12 (as stated): after every step a non-empty acc is compatible with every
\* specifier merged so far, and the result does not depend on the order of
\* the merges.
C12_MergeConsistent ==
  /\ (accumulator # EMPTY_STRING) => CompatibleWithAll
  /\ OrderIndependent

\* no merge so far has returned an empty string
NeverEmptied ==
  \A k \in 1..Len(merged) : MergeAll(SubSeq(merged, 1, k)) # EMPTY_STRING

\* the versions of the merged specifiers are written canonically
AllCanonical ==
  \A i \in 1..Len(merged), j \in 1..Len(merged) :
    Canonical(ExpandFresh(merged[i]), ExpandFresh(merged[j]))

\* C12 (amended): as long as no merge has returned an empty string, acc is
\* compatible with every specifier merged so far, and, the versions being
\* written canonically, merging the same specifiers in any other order gives
\* the same result.
C12_MergeConsistentUntilEmptied ==
  NeverEmptied =>
    /\ CompatibleWithAll
    /\ AllCanonical => OrderIndependent

\* "GCC", "GCC@>=1.0.0" and "GCC@2.0.0" have been merged into "GCC@2.0.0"
C12_Witness ==
  /\ op = "Merge"
  /\ merged = << <<"G", "C", "C">>,
                 <<"G", "C", "C", "@", ">", "=", "1", ".", "0", ".", "0">>,
                 <<"G", "C", "C", "@", "2", ".", "0", ".", "0">> >>
  /\ NeverEmptied
  /\ AllCanonical
  /\ accumulator = <<"G", "C", "C", "@", "2", ".", "0", ".", "0">>

====
